---- MODULE Spec2Model ----
(***************************************************************************)
(* Model of the recurring-campaign scheduler of MailchimpService           *)
(* (backend/src/services/MailchimpService.js) and of the EmailCampaign     *)
(* schema it works on.                                                     *)
(*                                                                         *)
(* An instant is a record [day, ms]: day is the number of days since       *)
(* 1970-01-01 in local time, ms the milliseconds since local midnight.     *)
(* The Date operators below follow ECMAScript's local-time algorithms      *)
(* (MakeDay, YearFromTime, MonthFromTime, DateFromTime, WeekDay) for a     *)
(* time zone without daylight-saving shifts.                               *)
(***************************************************************************)
EXTENDS Integers, Sequences, FiniteSets, TLC

VARIABLES
    options,     \* the recurring options a definition is created from
    rule,        \* the stored `recurring` sub-document under evaluation
    now,         \* the reference instant of the evaluation
    nextDate,    \* the computed next date, None before the evaluation
    clock,       \* the wall clock read by new Date()
    campaigns,   \* the EmailCampaign collection: document id -> document
    mailchimp,   \* the platform's campaigns: platform id -> campaign
    passes,      \* the processRecurringCampaigns invocations
    calls,       \* the operation calls in progress and the last result returned
    generation   \* the generateProductContent call: its position and its values

calcVars == <<options, rule, now, nextDate>>

serviceVars == <<clock, campaigns, mailchimp, passes>>

vars ==
    <<options, rule, now, nextDate, clock, campaigns, mailchimp, passes, calls,
      generation>>

----------------------------------------------------------------------------
(* Optional values: None is JavaScript's undefined, Some(v) a set value.   *)

None == <<>>

Some(v) == <<v>>

\* No operation is being called and none has returned.
NoCalls == [stack |-> <<>>, result |-> None]

\* generateProductContent has not been called.
NoGeneration ==
    [pc |-> "idle", keywords |-> None, title |-> None, description |-> None,
     shortDescription |-> None, features |-> None, specifications |-> None,
     applications |-> None, faqs |-> None, seoContent |-> None, seoData |-> None,
     returned |-> None, error |-> None]

Min(a, b) == IF a <= b THEN a ELSE b

----------------------------------------------------------------------------
(* Calendar arithmetic of the JavaScript Date object.                      *)

MsPerDay == 86400000

IsLeap(y) == (y % 4 = 0 /\ y % 100 # 0) \/ y % 400 = 0

DayFromYear(y) ==
    365 * (y - 1970) + ((y - 1969) \div 4) - ((y - 1901) \div 100)
        + ((y - 1601) \div 400)

\* Days of year y before month m (m in 0..12, 0 = January).
DaysBeforeMonth(y, m) ==
    <<0, 31, 59, 90, 120, 151, 181, 212, 243, 273, 304, 334, 365>>[m + 1]
        + (IF m >= 2 /\ IsLeap(y) THEN 1 ELSE 0)

\* ECMAScript MakeDay: month and date may lie outside their usual ranges.
MakeDay(year, month, date) ==
    LET ym == year + (month \div 12)
        mn == month % 12
    IN  DayFromYear(ym) + DaysBeforeMonth(ym, mn) + date - 1

YearFromDay(n) ==
    LET y0 == 1970 + (n \div 366)
    IN  CHOOSE y \in y0 .. (y0 + 1) : DayFromYear(y) <= n /\ n < DayFromYear(y + 1)

getFullYear(t) == YearFromDay(t.day)

getMonth(t) ==
    LET y == YearFromDay(t.day)
        k == t.day - DayFromYear(y)
    IN  CHOOSE m \in 0 .. 11 : DaysBeforeMonth(y, m) <= k /\ k < DaysBeforeMonth(y, m + 1)

getDate(t) ==
    LET y == YearFromDay(t.day)
    IN  t.day - DayFromYear(y) - DaysBeforeMonth(y, getMonth(t)) + 1

\* 0 = Sunday .. 6 = Saturday; 1970-01-01 was a Thursday.
getDay(t) == (t.day + 4) % 7

setDate(t, date) == [t EXCEPT !.day = MakeDay(getFullYear(t), getMonth(t), date)]

setMonth(t, month) == [t EXCEPT !.day = MakeDay(getFullYear(t), month, getDate(t))]

setHours(t, hours, minutes, seconds, millis) ==
    LET total == ((hours * 60 + minutes) * 60 + seconds) * 1000 + millis
    IN  [day |-> t.day + (total \div MsPerDay), ms |-> total % MsPerDay]

\* new Date(year, month, date): local midnight of that day.
NewDate(year, month, date) == [day |-> MakeDay(year, month, date), ms |-> 0]

getHours(t) == t.ms \div 3600000

getMinutes(t) == (t.ms \div 60000) % 60

getSeconds(t) == (t.ms \div 1000) % 60

getMilliseconds(t) == t.ms % 1000

\* a < b, a <= b on instants.
Before(a, b) == a.day < b.day \/ (a.day = b.day /\ a.ms < b.ms)

NotAfter(a, b) == a = b \/ Before(a, b)

----------------------------------------------------------------------------
(* Strings are sequences of one-character strings, so that split(':') and  *)
(* Number() are computed as the code computes them.                        *)

Digits == <<"0", "1", "2", "3", "4", "5", "6", "7", "8", "9">>

DigitValue(c) == (CHOOSE i \in 1 .. 10 : Digits[i] = c) - 1

\* Number(s) for a string of decimal digits; Number("") is 0.
RECURSIVE ToNumber(_)
ToNumber(s) ==
    IF s = <<>> THEN 0
    ELSE ToNumber(SubSeq(s, 1, Len(s) - 1)) * 10 + DigitValue(s[Len(s)])

\* s.split(':')
RECURSIVE SplitColon(_)
SplitColon(s) ==
    IF \A i \in 1 .. Len(s) : s[i] # ":" THEN <<s>>
    ELSE LET k == CHOOSE i \in 1 .. Len(s) :
                      s[i] = ":" /\ \A j \in 1 .. (i - 1) : s[j] # ":"
         IN  <<SubSeq(s, 1, k - 1)>> \o SplitColon(SubSeq(s, k + 1, Len(s)))

----------------------------------------------------------------------------
(* The recurring sub-document of the EmailCampaign schema.                 *)

RecognizedFrequencies == {"daily", "weekly", "biweekly", "monthly", "quarterly"}

DefaultTimeOfDay == <<"0", "9", ":", "0", "0">>

\* The schema's defaults, applied to the fields a caller left undefined.
RecurringSchema(input) ==
    [enabled       |-> IF input.enabled = None THEN FALSE ELSE input.enabled[1],
     frequency     |-> IF input.frequency = None THEN "monthly" ELSE input.frequency[1],
     dayOfWeek     |-> input.dayOfWeek,
     dayOfMonth    |-> input.dayOfMonth,
     timeOfDay     |-> IF input.timeOfDay = None THEN DefaultTimeOfDay
                       ELSE input.timeOfDay[1],
     lastSent      |-> input.lastSent,
     nextScheduled |-> input.nextScheduled]

----------------------------------------------------------------------------
(* The next-date computation of processRecurringCampaigns, step by step.   *)
(* Each step takes the recurring sub-document r and the working date d.    *)

\* AdvanceInterval with the daily case adding no day.
AdvanceIntervalDailyStays(r, d) ==
    CASE r.frequency = "daily"     -> setDate(d, getDate(d))
      [] r.frequency = "weekly"    -> setDate(d, getDate(d) + 7)
      [] r.frequency = "biweekly"  -> setDate(d, getDate(d) + 14)
      [] r.frequency = "monthly"   -> setMonth(d, getMonth(d) + 1)
      [] r.frequency = "quarterly" -> setMonth(d, getMonth(d) + 3)
      [] OTHER                     -> setMonth(d, getMonth(d) + 1)

\* The switch on the frequency.
AdvanceInterval(r, d) ==
    CASE r.frequency = "daily"     -> setDate(d, getDate(d) + 1)
      [] r.frequency = "weekly"    -> setDate(d, getDate(d) + 7)
      [] r.frequency = "biweekly"  -> setDate(d, getDate(d) + 14)
      [] r.frequency = "monthly"   -> setMonth(d, getMonth(d) + 1)
      [] r.frequency = "quarterly" -> setMonth(d, getMonth(d) + 3)
      [] OTHER                     -> setMonth(d, getMonth(d) + 1)

\* DayOfWeekLoop searching backward.
RECURSIVE DayOfWeekLoopBackward(_, _)
DayOfWeekLoopBackward(d, w) ==
    IF getDay(d) # w THEN DayOfWeekLoopBackward(setDate(d, getDate(d) - 1), w) ELSE d

\* while (nextDate.getDay() !== dayOfWeek) nextDate.setDate(getDate() + 1)
RECURSIVE DayOfWeekLoop(_, _)
DayOfWeekLoop(d, w) ==
    IF getDay(d) # w THEN DayOfWeekLoop(setDate(d, getDate(d) + 1), w) ELSE d

\* DayOfWeekStep searching for daily rules too.
DayOfWeekStepAlsoDaily(r, d) ==
    IF r.dayOfWeek # None
    THEN DayOfWeekLoop(d, r.dayOfWeek[1])
    ELSE d

\* The search is entered when dayOfWeek is defined and the rule is not daily.
DayOfWeekStep(r, d) ==
    IF r.dayOfWeek # None /\ r.frequency # "daily"
    THEN DayOfWeekLoop(d, r.dayOfWeek[1])
    ELSE d

\* DayOfMonthStep taking the length of the month before the working date's.
DayOfMonthStepPreviousMonth(r, d) ==
    IF r.dayOfMonth # None /\ r.dayOfMonth[1] # 0
           /\ r.frequency \in {"monthly", "quarterly"}
    THEN LET maxDay == getDate(NewDate(getFullYear(d), getMonth(d), 0))
         IN  setDate(d, Min(r.dayOfMonth[1], maxDay))
    ELSE d

DayOfMonthStep(r, d) ==
    IF r.dayOfMonth # None /\ r.dayOfMonth[1] # 0
           /\ r.frequency \in {"monthly", "quarterly"}
    THEN LET maxDay == getDate(NewDate(getFullYear(d), getMonth(d) + 1, 0))
         IN  setDate(d, Min(r.dayOfMonth[1], maxDay))
    ELSE d

\* TimeOfDayStep leaving the seconds and milliseconds as they are.
TimeOfDayStepKeepsSeconds(r, d) ==
    IF r.timeOfDay # <<>>
    THEN LET parts   == SplitColon(r.timeOfDay)
             hours   == ToNumber(parts[1])
             minutes == ToNumber(parts[2])
         IN  setHours(d, hours, minutes, getSeconds(d), getMilliseconds(d))
    ELSE d

TimeOfDayStep(r, d) ==
    IF r.timeOfDay # <<>>
    THEN LET parts   == SplitColon(r.timeOfDay)
             hours   == ToNumber(parts[1])
             minutes == ToNumber(parts[2])
         IN  setHours(d, hours, minutes, 0, 0)
    ELSE d

\* ComputeNextOccurrence starting from the definition's lastSent when an
\* earlier evaluation left one.
ComputeNextOccurrenceFromLastSent(r, d) ==
    LET start == IF r.lastSent = None THEN d ELSE r.lastSent[1]
    IN  TimeOfDayStep(r, DayOfMonthStep(r, DayOfWeekStep(r, AdvanceInterval(r, start))))

\* The date the scheduler computes from the clock reading d.
ComputeNextOccurrence(r, d) ==
    TimeOfDayStep(r, DayOfMonthStep(r, DayOfWeekStep(r, AdvanceInterval(r, d))))

----------------------------------------------------------------------------
(* The EmailCampaign collection and the platform.                          *)

NoRecurring ==
    [enabled |-> None, frequency |-> None, dayOfWeek |-> None, dayOfMonth |-> None,
     timeOfDay |-> None, lastSent |-> None, nextScheduled |-> None]

\* The document EmailCampaign.create builds from its argument.
EmailCampaignSchema(input) ==
    [name                |-> input.name,
     description         |-> input.description,
     type                |-> input.type,
     template            |-> input.template,
     segment             |-> input.segment,
     scheduledFor        |-> input.scheduledFor,
     recurring           |-> RecurringSchema(input.recurring),
     status              |-> input.status,
     mailchimpCampaignId |-> None]

\* EmailCampaign.find({'recurring.enabled': true, status: {$in: [...]}}):
\* the ids of the matching documents among the first n, in storage order.
RECURSIVE FindRecurring(_, _)
FindRecurring(store, n) ==
    IF n = 0 THEN <<>>
    ELSE LET rest == FindRecurring(store, n - 1)
         IN  IF store[n].recurring.enabled /\ store[n].status \in {"draft", "sent"}
             THEN Append(rest, n)
             ELSE rest

\* createCampaign(campaign): the collection and the platform after the call,
\* and the result it returns. doc is the caller's in-memory campaign, id its
\* _id; outcome says which collaborator call, if any, fails.
CreateOutcomes == {"ok", "templateMissing", "createFails", "setContentFails", "updateFails"}

\* createCampaign updating the local campaign before the content is set.
CreateCampaignUpdatesFirst(store, platform, id, doc, outcome) ==
    LET created  == [title |-> doc.name, content |-> FALSE, scheduleTime |-> None]
        uploaded == [created EXCEPT !.content = TRUE]
        newId    == Len(platform) + 1
        updated  == [store EXCEPT ![id].mailchimpCampaignId = Some(newId),
                                  ![id].status = "scheduled"]
    IN  CASE outcome \in {"templateMissing", "createFails", "updateFails"} ->
                [campaigns |-> store, mailchimp |-> platform, success |-> FALSE, data |-> None]
          [] outcome = "setContentFails" ->
                [campaigns |-> updated, mailchimp |-> Append(platform, created),
                 success |-> FALSE, data |-> None]
          [] OTHER ->
                [campaigns |-> updated, mailchimp |-> Append(platform, uploaded),
                 success |-> TRUE, data |-> Some(newId)]

CreateCampaign(store, platform, id, doc, outcome) ==
    LET created  == [title |-> doc.name, content |-> FALSE, scheduleTime |-> None]
        uploaded == [created EXCEPT !.content = TRUE]
        newId    == Len(platform) + 1
    IN  CASE outcome \in {"templateMissing", "createFails"} ->
                [campaigns |-> store, mailchimp |-> platform, success |-> FALSE, data |-> None]
          [] outcome = "setContentFails" ->
                [campaigns |-> store, mailchimp |-> Append(platform, created),
                 success |-> FALSE, data |-> None]
          [] outcome = "updateFails" ->
                [campaigns |-> store, mailchimp |-> Append(platform, uploaded),
                 success |-> FALSE, data |-> None]
          [] OTHER ->
                [campaigns |-> [store EXCEPT ![id].mailchimpCampaignId = Some(newId),
                                             ![id].status = "scheduled"],
                 mailchimp |-> Append(platform, uploaded),
                 success |-> TRUE, data |-> Some(newId)]

\* scheduleCampaign(campaignId, scheduledTime)
ScheduleCampaign(platform, campaignId, scheduledTime, ok) ==
    IF ok
    THEN [mailchimp |-> [platform EXCEPT ![campaignId].scheduleTime = Some(scheduledTime)],
          success |-> TRUE]
    ELSE [mailchimp |-> platform, success |-> FALSE]

----------------------------------------------------------------------------
(* processRecurringCampaigns, one action per stretch of code between two   *)
(* awaited calls. Spec runs one invocation at a time (PollPass).           *)

NumDefs == 2

MaxDocs == 4

MaxTicks == 1

MaxNewsletters == 1

PassIds == {1, 2}

PollPass == 1

\* 2024-01-31 09:00:00.000
Clock0 == [day |-> MakeDay(2024, 0, 31), ms |-> 9 * 3600000]

DefinitionNames == <<"Recurring A", "Recurring B", "Recurring C", "Recurring D">>

\* date.toLocaleDateString(): month, day and year of the local date.
LocaleDate(t) == <<getMonth(t) + 1, getDate(t), getFullYear(t)>>

\* The recurring definitions an operator may have stored: status and
\* recurring options.
DefinitionProfiles ==
    {[status |-> "draft",
      recurring |-> [NoRecurring EXCEPT !.enabled = Some(TRUE), !.frequency = Some("daily")]],
     [status |-> "sent",
      recurring |-> [NoRecurring EXCEPT !.enabled = Some(TRUE), !.dayOfMonth = Some(31),
                                        !.nextScheduled = Some(Clock0)]],
     [status |-> "draft",
      recurring |-> [NoRecurring EXCEPT !.enabled = Some(TRUE), !.frequency = Some("weekly"),
                                        !.dayOfWeek = Some(3),
                                        !.nextScheduled = Some([Clock0 EXCEPT !.day = @ + 1])]],
     [status |-> "draft",
      recurring |-> [NoRecurring EXCEPT !.enabled = Some(FALSE), !.frequency = Some("daily")]],
     [status |-> "cancelled",
      recurring |-> [NoRecurring EXCEPT !.enabled = Some(TRUE), !.frequency = Some("daily"),
                                        !.nextScheduled = Some([Clock0 EXCEPT !.day = @ - 1])]]}

Definition(k, profile) ==
    EmailCampaignSchema(
        [name |-> [base |-> DefinitionNames[k], dates |-> <<>>],
         description |-> "Recurring campaign", type |-> "promotional",
         template |-> "template-1", segment |-> "region:eu", scheduledFor |-> None,
         recurring |-> profile.recurring, status |-> profile.status])

\* An invocation that has not started. dueAtStart is a history field: the
\* number of campaigns of the batch that were due when the find returned.
IdlePass ==
    [pc |-> "idle", snapshot |-> <<>>, i |-> 0, now |-> None, nextDate |-> None,
     newCampaign |-> None, created |-> None, results |-> <<>>, success |-> None,
     dueAtStart |-> 0]

\* The service with NumDefs stored definitions drawn from profiles.
InitFrom(profiles) ==
    /\ options = NoRecurring
    /\ rule = RecurringSchema(NoRecurring)
    /\ now = Clock0
    /\ nextDate = None
    /\ clock = Clock0
    /\ \E chosen \in [1 .. NumDefs -> profiles] :
           campaigns = [k \in 1 .. NumDefs |-> Definition(k, chosen[k])]
    /\ mailchimp = <<>>
    /\ passes = [p \in PassIds |-> IdlePass]
    /\ calls = NoCalls
    /\ generation = NoGeneration

Init == InitFrom(DefinitionProfiles)

\* IsDue without the test of nextScheduled.
IsDueAlways(doc, t) == TRUE

\* IsDue with a strict comparison.
IsDueStrict(doc, t) ==
    IF doc.recurring.nextScheduled = None THEN TRUE
    ELSE Before(doc.recurring.nextScheduled[1], t)

\* !nextScheduled || nextScheduled <= now
IsDue(doc, t) ==
    IF doc.recurring.nextScheduled = None THEN TRUE
    ELSE NotAfter(doc.recurring.nextScheduled[1], t)

\* The in-memory campaign the loop of pass p is at.
Current(p) == passes[p].snapshot[passes[p].i]

\* Failed letting the error reach the outer catch: the pass ends.
FailedAborts(pass, message) ==
    [pass EXCEPT !.pc = "done", !.success = Some(FALSE), !.results = <<>>,
                 !.now = None, !.nextDate = None, !.newCampaign = None,
                 !.created = None]

\* Failed staying at the campaign that failed: it is taken up again.
FailedRetries(pass, message) ==
    [pass EXCEPT
        !.results = Append(@, [campaign |-> pass.snapshot[pass.i].doc.name,
                               success |-> FALSE, error |-> message]),
        !.pc = "loop", !.now = None, !.nextDate = None,
        !.newCampaign = None, !.created = None]

\* The inner catch, for the invocation record pass: push a failure outcome
\* and go on with the next campaign.
Failed(pass, message) ==
    [pass EXCEPT
        !.results = Append(@, [campaign |-> pass.snapshot[pass.i].doc.name,
                               success |-> FALSE, error |-> message]),
        !.i = @ + 1, !.pc = "loop", !.now = None, !.nextDate = None,
        !.newCampaign = None, !.created = None]

\* Succeeded without the push of the outcome.
SucceededWithoutOutcome(pass, next) ==
    [pass EXCEPT
        !.i = @ + 1, !.pc = "loop", !.now = None, !.nextDate = None,
        !.newCampaign = None, !.created = None]

\* results.push({campaign, nextScheduled, success: true}), then the next
\* campaign.
Succeeded(pass, next) ==
    [pass EXCEPT
        !.results = Append(@, [campaign |-> pass.snapshot[pass.i].doc.name,
                               nextScheduled |-> next, success |-> TRUE]),
        !.i = @ + 1, !.pc = "loop", !.now = None, !.nextDate = None,
        !.newCampaign = None, !.created = None]

\* The outer catch: the pass returns {success: false} without results.
FindFailed(p) == [IdlePass EXCEPT !.pc = "done", !.success = Some(FALSE)]

\* EmailCampaign.find(...), then the loop starts.
StartPass(p) ==
    /\ passes[p].pc \in {"idle", "done"}
    /\ \E ok \in BOOLEAN :
          passes' = [passes EXCEPT ![p] =
              IF ok
              THEN LET ids == FindRecurring(campaigns, Len(campaigns))
                   IN  [IdlePass EXCEPT
                           !.pc = "loop", !.i = 1,
                           !.snapshot = [k \in 1 .. Len(ids) |->
                                            [id |-> ids[k], doc |-> campaigns[ids[k]]]],
                           !.dueAtStart = Cardinality({k \in 1 .. Len(ids) :
                                              IsDue(campaigns[ids[k]], clock)})]
              ELSE FindFailed(p)]
    /\ UNCHANGED <<generation, calls, calcVars, clock, campaigns, mailchimp>>

\* The loop is over: return {success: true, results}.
Finish(p) ==
    /\ passes[p].pc = "loop"
    /\ passes[p].i > Len(passes[p].snapshot)
    /\ passes' = [passes EXCEPT ![p].pc = "done", ![p].success = Some(TRUE)]
    /\ UNCHANGED <<generation, calls, calcVars, clock, campaigns, mailchimp>>

\* The campaign is not due: nothing is done for it.
SkipNotDue(p) ==
    /\ passes[p].pc = "loop"
    /\ passes[p].i <= Len(passes[p].snapshot)
    /\ ~IsDue(Current(p).doc, clock)
    /\ passes' = [passes EXCEPT ![p].i = @ + 1]
    /\ UNCHANGED <<generation, calls, calcVars, clock, campaigns, mailchimp>>

\* InstanceOf copying the recurring options of the campaign.
InstanceOfKeepsRecurring(doc, date) ==
    [EmailCampaignSchema(
        [name |-> [doc.name EXCEPT !.dates = Append(@, LocaleDate(date))],
         description |-> doc.description, type |-> doc.type, template |-> doc.template,
         segment |-> doc.segment, scheduledFor |-> Some(date),
         recurring |-> NoRecurring, status |-> "draft"])
     EXCEPT !.recurring = doc.recurring]

\* InstanceOf with the schedule date left out of the new campaign.
InstanceOfUnscheduled(doc, date) ==
    EmailCampaignSchema(
        [name |-> [doc.name EXCEPT !.dates = Append(@, LocaleDate(date))],
         description |-> doc.description, type |-> doc.type, template |-> doc.template,
         segment |-> doc.segment, scheduledFor |-> None,
         recurring |-> NoRecurring, status |-> "draft"])

\* The instance EmailCampaign.create is asked to store for the campaign doc.
InstanceOf(doc, date) ==
    EmailCampaignSchema(
        [name |-> [doc.name EXCEPT !.dates = Append(@, LocaleDate(date))],
         description |-> doc.description, type |-> doc.type, template |-> doc.template,
         segment |-> doc.segment, scheduledFor |-> Some(date),
         recurring |-> NoRecurring, status |-> "draft"])

\* The campaign is due: compute the next date and store the new instance.
FireDue(p) ==
    /\ passes[p].pc = "loop"
    /\ passes[p].i <= Len(passes[p].snapshot)
    /\ IsDue(Current(p).doc, clock)
    /\ LET date == ComputeNextOccurrence(Current(p).doc.recurring, clock)
           inst == InstanceOf(Current(p).doc, date)
       IN  \E ok \in (IF Len(campaigns) < MaxDocs THEN BOOLEAN ELSE {FALSE}) :
              IF ok
              THEN /\ campaigns' = Append(campaigns, inst)
                   /\ passes' = [passes EXCEPT
                          ![p].pc = "create", ![p].now = Some(clock),
                          ![p].nextDate = Some(date),
                          ![p].newCampaign = Some([id |-> Len(campaigns) + 1, doc |-> inst])]
              ELSE /\ campaigns' = campaigns
                   /\ passes' = [passes EXCEPT ![p] =
                                     Failed(passes[p], "Campaign could not be stored")]
    /\ UNCHANGED <<generation, calls, calcVars, clock, mailchimp>>

\* DispatchCreate handing createCampaign the recurring campaign's _id.
DispatchCreateUpdatesDefinition(p) ==
    /\ passes[p].pc = "create"
    /\ \E outcome \in CreateOutcomes :
          LET new == passes[p].newCampaign[1]
              r   == CreateCampaign(campaigns, mailchimp, Current(p).id, new.doc, outcome)
          IN  /\ campaigns' = r.campaigns
              /\ mailchimp' = r.mailchimp
              /\ passes' = [passes EXCEPT ![p] =
                     IF r.success
                     THEN [passes[p] EXCEPT !.pc = "schedule", !.created = r.data]
                     ELSE Failed(passes[p], "Failed to create campaign in Mailchimp")]
    /\ UNCHANGED <<generation, calls, calcVars, clock>>

\* DispatchCreate saving the advanced definition before the dispatch.
DispatchCreateAdvancesFirst(p) ==
    /\ passes[p].pc = "create"
    /\ \E outcome \in CreateOutcomes :
          LET new   == passes[p].newCampaign[1]
              id    == passes[p].snapshot[passes[p].i].id
              saved == [campaigns EXCEPT ![id].recurring.lastSent = passes[p].now,
                                         ![id].recurring.nextScheduled = passes[p].nextDate]
              r     == CreateCampaign(saved, mailchimp, new.id, new.doc, outcome)
          IN  /\ campaigns' = r.campaigns
              /\ mailchimp' = r.mailchimp
              /\ passes' = [passes EXCEPT ![p] =
                     IF r.success
                     THEN [passes[p] EXCEPT !.pc = "schedule", !.created = r.data]
                     ELSE Failed(passes[p], "Failed to create campaign in Mailchimp")]
    /\ UNCHANGED <<generation, calls, calcVars, clock>>

\* await this.createCampaign(newCampaign)
DispatchCreate(p) ==
    /\ passes[p].pc = "create"
    /\ \E outcome \in CreateOutcomes :
          LET new == passes[p].newCampaign[1]
              r   == CreateCampaign(campaigns, mailchimp, new.id, new.doc, outcome)
          IN  /\ campaigns' = r.campaigns
              /\ mailchimp' = r.mailchimp
              /\ passes' = [passes EXCEPT ![p] =
                     IF r.success
                     THEN [passes[p] EXCEPT !.pc = "schedule", !.created = r.data]
                     ELSE Failed(passes[p], "Failed to create campaign in Mailchimp")]
    /\ UNCHANGED <<generation, calls, calcVars, clock>>

\* await this.scheduleCampaign(createResult.data.id, newCampaign.scheduledFor)
DispatchSchedule(p) ==
    /\ passes[p].pc = "schedule"
    /\ \E ok \in BOOLEAN :
          LET r == ScheduleCampaign(mailchimp, passes[p].created[1],
                                    passes[p].newCampaign[1].doc.scheduledFor[1], ok)
          IN  /\ mailchimp' = r.mailchimp
              /\ passes' = [passes EXCEPT ![p] =
                     IF r.success
                     THEN [passes[p] EXCEPT !.pc = "save"]
                     ELSE Failed(passes[p], "Failed to schedule campaign in Mailchimp")]
    /\ UNCHANGED <<generation, calls, calcVars, clock, campaigns>>

\* Advanced without the assignment to nextScheduled.
AdvancedKeepsNextScheduled(recurring, sent, next) ==
    [recurring EXCEPT !.lastSent = Some(sent)]

\* Advanced with the next date stored as lastSent too.
AdvancedLastSentIsNext(recurring, sent, next) ==
    [recurring EXCEPT !.lastSent = Some(next), !.nextScheduled = Some(next)]

\* The recurring sub-document after the two assignments before save().
Advanced(recurring, sent, next) ==
    [recurring EXCEPT !.lastSent = Some(sent), !.nextScheduled = Some(next)]

\* SaveDefinition pushing the success outcome whether or not save() failed.
SaveDefinitionReportsSuccess(p) ==
    /\ passes[p].pc = "save"
    /\ LET id      == Current(p).id
           sent    == passes[p].now[1]
           next    == passes[p].nextDate[1]
           updated == [passes[p] EXCEPT
                          !.snapshot[passes[p].i].doc.recurring = Advanced(@, sent, next)]
       IN  \E ok \in BOOLEAN :
              /\ campaigns' = IF ok THEN [campaigns EXCEPT ![id].recurring =
                                             Advanced(@, sent, next)]
                              ELSE campaigns
              /\ passes' = [passes EXCEPT ![p] = Succeeded(updated, next)]
    /\ UNCHANGED <<generation, calls, calcVars, clock, mailchimp>>

\* lastSent and nextScheduled are set on the campaign, then await save().
SaveDefinition(p) ==
    /\ passes[p].pc = "save"
    /\ LET id      == Current(p).id
           sent    == passes[p].now[1]
           next    == passes[p].nextDate[1]
           updated == [passes[p] EXCEPT
                          !.snapshot[passes[p].i].doc.recurring = Advanced(@, sent, next)]
       IN  \E ok \in BOOLEAN :
              IF ok
              THEN /\ campaigns' = [campaigns EXCEPT ![id].recurring =
                                       Advanced(@, sent, next)]
                   /\ passes' = [passes EXCEPT ![p] = Succeeded(updated, next)]
              ELSE /\ campaigns' = campaigns
                   /\ passes' = [passes EXCEPT ![p] =
                                     Failed(updated, "Campaign could not be saved")]
    /\ UNCHANGED <<generation, calls, calcVars, clock, mailchimp>>

\* The recurring options a caller of scheduleNewsletter may pass.
NewsletterRecurring ==
    {None,
     Some([NoRecurring EXCEPT !.enabled = Some(TRUE), !.frequency = Some("daily")])}

NewsletterOutcomes ==
    {"templateMissing", "storeFails", "scheduleFails"} \cup CreateOutcomes

\* t + ms milliseconds
AddMs(t, ms) ==
    [day |-> t.day + ((t.ms + ms) \div MsPerDay), ms |-> (t.ms + ms) % MsPerDay]

\* The stored campaigns that scheduleNewsletter created.
Newsletters == {id \in DOMAIN campaigns : campaigns[id].type = "newsletter"}

\* scheduleNewsletter(options): the campaign is stored with the caller's
\* recurring options, created on the platform and scheduled. Callers invoke
\* it between two poll passes.
ScheduleNewsletter ==
    /\ Cardinality(Newsletters) < MaxNewsletters
    /\ Len(campaigns) < MaxDocs
    /\ \A p \in PassIds : passes[p].pc \in {"idle", "done"}
    /\ \E recurring \in NewsletterRecurring, outcome \in NewsletterOutcomes :
          LET campaign ==
                  EmailCampaignSchema(
                      [name |-> [base |-> "Newsletter", dates |-> <<LocaleDate(clock)>>],
                       description |-> "Regular newsletter campaign",
                       type |-> "newsletter", template |-> "template-newsletter",
                       segment |-> "{}", scheduledFor |-> Some(AddMs(clock, 3600000)),
                       recurring |-> IF recurring = None
                                     THEN [NoRecurring EXCEPT !.enabled = Some(FALSE)]
                                     ELSE recurring[1],
                       status |-> "draft"])
              id      == Len(campaigns) + 1
              stored  == Append(campaigns, campaign)
              c       == CreateCampaign(stored, mailchimp, id, campaign,
                             IF outcome \in CreateOutcomes THEN outcome ELSE "ok")
              s       == ScheduleCampaign(c.mailchimp, c.data[1], campaign.scheduledFor[1],
                                          outcome # "scheduleFails")
          IN  IF outcome \in {"templateMissing", "storeFails"}
              THEN UNCHANGED <<campaigns, mailchimp>>
              ELSE /\ campaigns' = c.campaigns
                   /\ mailchimp' = IF c.success THEN s.mailchimp ELSE c.mailchimp
    /\ UNCHANGED <<generation, calls, calcVars, clock, passes>>

\* Time passes: the clock moves on by a day. The code reads the clock only at
\* the top of the loop body, so the clock moves between two such readings.
Tick ==
    /\ clock.day < Clock0.day + MaxTicks
    /\ \A p \in PassIds : passes[p].pc \in {"idle", "loop", "done"}
    /\ clock' = [clock EXCEPT !.day = @ + 1]
    /\ UNCHANGED <<generation, calls, calcVars, campaigns, mailchimp, passes>>

Next ==
    \/ StartPass(PollPass)
    \/ Finish(PollPass)
    \/ SkipNotDue(PollPass)
    \/ FireDue(PollPass)
    \/ DispatchCreate(PollPass)
    \/ DispatchSchedule(PollPass)
    \/ SaveDefinition(PollPass)
    \/ Tick

Spec == Init /\ [][Next]_vars

\* The scheduler together with the callers of scheduleNewsletter.
NextService ==
    \/ StartPass(PollPass)
    \/ Finish(PollPass)
    \/ SkipNotDue(PollPass)
    \/ FireDue(PollPass)
    \/ DispatchCreate(PollPass)
    \/ DispatchSchedule(PollPass)
    \/ SaveDefinition(PollPass)
    \/ ScheduleNewsletter
    \/ Tick

\* The profiles whose recurrence is enabled and has no later nextScheduled
\* than Clock0.
DueProfiles ==
    {profile \in DefinitionProfiles :
        /\ profile.recurring.enabled = Some(TRUE)
        /\ IF profile.recurring.nextScheduled = None THEN TRUE
           ELSE NotAfter(profile.recurring.nextScheduled[1], Clock0)}

InitService == InitFrom(DueProfiles)

SpecService == InitService /\ [][NextService]_vars

----------------------------------------------------------------------------
(* Evaluation of the computation on its own: a rule and a reference        *)
(* instant are drawn from the sets below and the next date is computed.    *)

NumYears == 2

NowYears == 2023 .. (2022 + NumYears)

NowDates == {1, 3, 15, 28, 29, 30, 31}

\* 10:30:15.250 and 23:59:59.999
NowTimes == {((10 * 60 + 30) * 60 + 15) * 1000 + 250, MsPerDay - 1}

DaysInMonth(y, m) ==
    IF m = 1 THEN (IF IsLeap(y) THEN 29 ELSE 28)
    ELSE IF m \in {3, 5, 8, 10} THEN 30 ELSE 31

NowInstants ==
    {[day |-> MakeDay(c[1], c[2], c[3]), ms |-> t] :
        c \in {c \in NowYears \X (0 .. 11) \X NowDates : c[3] <= DaysInMonth(c[1], c[2])},
        t \in NowTimes}

Frequencies == RecognizedFrequencies \cup {"yearly"}

DayOfWeekValues == {None} \cup {Some(w) : w \in 0 .. 6}

DayOfMonthValues == {None} \cup {Some(d) : d \in {1, 15, 29, 30, 31}}

TimeOfDayValues ==
    {None, Some(<<"0", "0", ":", "0", "0">>), Some(<<"2", "3", ":", "5", "9">>)}

RuleOptions ==
    [enabled : {Some(TRUE)}, frequency : {Some(f) : f \in Frequencies},
     dayOfWeek : DayOfWeekValues, dayOfMonth : DayOfMonthValues,
     timeOfDay : TimeOfDayValues, lastSent : {None}, nextScheduled : {None}]

InitCalc ==
    /\ options \in RuleOptions
    /\ rule = RecurringSchema(options)
    /\ now \in NowInstants
    /\ nextDate = None
    /\ clock = Clock0
    /\ campaigns = <<>>
    /\ mailchimp = <<>>
    /\ passes = [p \in PassIds |-> IdlePass]
    /\ calls = NoCalls
    /\ generation = NoGeneration

Evaluate ==
    /\ nextDate = None
    /\ nextDate' = Some(ComputeNextOccurrence(rule, now))
    /\ UNCHANGED <<generation, calls, options, rule, now, serviceVars>>

NextCalc == Evaluate

SpecCalc == InitCalc /\ [][NextCalc]_vars

----------------------------------------------------------------------------
(* Properties of the next-date computation (SpecCalc).                     *)

Computed == nextDate # None

\* The HH and MM of an "HH:MM" string, read by position.
HourOf(s) == DigitValue(s[1]) * 10 + DigitValue(s[2])

MinuteOf(s) == DigitValue(s[4]) * 10 + DigitValue(s[5])

\* The time of day the options ask for: "09:00" when they give none.
AskedTimeOfDay ==
    IF options.timeOfDay = None THEN <<"0", "9", ":", "0", "0">>
    ELSE options.timeOfDay[1]

\* C1: for every frequency, dayOfWeek, dayOfMonth, timeOfDay and now, the
\* computed next date is strictly later than now.
C1_NextAfterNow == Computed => Before(now, nextDate[1])

\* A daily rule at "00:00" evaluated at 23:59:59.999: the next date is the
\* following midnight, one millisecond after now.
C1_Witness ==
    /\ Computed
    /\ rule.frequency = "daily"
    /\ now.ms = MsPerDay - 1
    /\ nextDate[1] = [day |-> now.day + 1, ms |-> 0]

\* C6: for monthly and quarterly rules with dayOfMonth = d, the result's day
\* of month is min(d, length of the month the working date is in after the
\* interval advance and the day-of-week search), and the month and year of
\* the working date are kept.
C6_ClampWithinMonth ==
    (Computed /\ rule.frequency \in {"monthly", "quarterly"} /\ rule.dayOfMonth # None) =>
        LET w == DayOfWeekStep(rule, AdvanceInterval(rule, now))
            r == nextDate[1]
        IN  /\ getDate(r) = Min(rule.dayOfMonth[1], DaysInMonth(getFullYear(w), getMonth(w)))
            /\ getMonth(r) = getMonth(w)
            /\ getFullYear(r) = getFullYear(w)

\* dayOfMonth = 31 clamped to 29 in the February of a leap year.
C6_Witness ==
    /\ Computed
    /\ rule.frequency = "monthly"
    /\ rule.dayOfMonth = Some(31)
    /\ getFullYear(nextDate[1]) = 2024
    /\ getMonth(nextDate[1]) = 1
    /\ getDate(nextDate[1]) = 29

\* C7: for a monthly (k = 1) or quarterly (k = 3) rule with dayOfMonth = d
\* and no dayOfWeek, for every now the result is in the month exactly k
\* months after now's month, on day min(d, length of that month), at
\* timeOfDay.
C7_ExactTargetMonth ==
    (Computed /\ rule.frequency \in {"monthly", "quarterly"}
              /\ rule.dayOfMonth # None /\ rule.dayOfWeek = None) =>
        LET k     == IF rule.frequency = "monthly" THEN 1 ELSE 3
            total == getFullYear(now) * 12 + getMonth(now) + k
            ty    == total \div 12
            tm    == total % 12
        IN  nextDate[1] =
                [day |-> MakeDay(ty, tm, Min(rule.dayOfMonth[1], DaysInMonth(ty, tm))),
                 ms  |-> (HourOf(rule.timeOfDay) * 60 + MinuteOf(rule.timeOfDay)) * 60000]

\* C8: for a weekly or biweekly rule with dayOfWeek = w, the result's date is
\* the earliest date not before now + 7 days (resp. now + 14 days) whose
\* weekday is w: between 0 and 6 days after that base date.
C8_DayOfWeekSearch ==
    (Computed /\ rule.frequency \in {"weekly", "biweekly"} /\ rule.dayOfWeek # None) =>
        LET base == now.day + (IF rule.frequency = "weekly" THEN 7 ELSE 14)
            r    == nextDate[1]
        IN  /\ base <= r.day
            /\ r.day <= base + 6
            /\ getDay(r) = rule.dayOfWeek[1]

\* now = Monday 2024-06-03, weekly, dayOfWeek = 3: Wednesday 2024-06-12.
C8_Witness ==
    /\ Computed
    /\ rule.frequency = "weekly"
    /\ rule.dayOfWeek = Some(3)
    /\ now.day = MakeDay(2024, 5, 3)
    /\ getDay(now) = 1
    /\ nextDate[1].day = MakeDay(2024, 5, 12)

\* C9: the result's hour and minute are the HH and MM of the rule's
\* timeOfDay ("09:00" when none is given), its seconds and milliseconds are
\* zero, and applying the time of day keeps the calendar date.
C9_TimeOfDayApplied ==
    Computed =>
        LET r == nextDate[1]
        IN  /\ getHours(r) = HourOf(AskedTimeOfDay)
            /\ getMinutes(r) = MinuteOf(AskedTimeOfDay)
            /\ getSeconds(r) = 0
            /\ getMilliseconds(r) = 0
            /\ r.day = DayOfMonthStep(rule, DayOfWeekStep(rule, AdvanceInterval(rule, now))).day

\* No timeOfDay given, now at 10:30:15.250: the result is at 09:00:00.000.
C9_Witness ==
    /\ Computed
    /\ options.timeOfDay = None
    /\ getSeconds(now) = 15
    /\ getMilliseconds(now) = 250
    /\ nextDate[1].ms = 9 * 3600000

\* C10: a rule whose frequency is not one of the five recognized values
\* yields the same next date as the same rule with frequency monthly.
C10_UnrecognizedAsMonthly ==
    (Computed /\ rule.frequency \notin RecognizedFrequencies) =>
        nextDate[1] = ComputeNextOccurrence([rule EXCEPT !.frequency = "monthly"], now)

----------------------------------------------------------------------------
(* Properties of the poll pass (Spec, SpecService).                        *)

Last(seq) == seq[Len(seq)]

\* nextScheduled is absent or not later than t.
DueAt(doc, t) ==
    IF doc.recurring.nextScheduled = None THEN TRUE
    ELSE ~Before(t, doc.recurring.nextScheduled[1])

\* Pass p takes a step at a campaign of its batch.
AtCampaign(p) ==
    /\ passes[p].pc \in {"loop", "create", "schedule", "save"}
    /\ passes[p].i <= Len(passes[p].snapshot)
    /\ passes'[p] # passes[p]

\* The step of pass p is a collaborator failing: the store refusing the new
\* instance, createCampaign or scheduleCampaign failing, save() failing.
InstanceFailed(p) ==
    /\ AtCampaign(p)
    /\ passes[p].pc = "loop"
    /\ DueAt(Current(p).doc, clock)
    /\ campaigns' = campaigns

CreateFailed(p) ==
    /\ AtCampaign(p)
    /\ passes[p].pc = "create"
    /\ campaigns'[passes[p].newCampaign[1].id].mailchimpCampaignId = None

ScheduleFailed(p) ==
    /\ AtCampaign(p)
    /\ passes[p].pc = "schedule"
    /\ mailchimp' = mailchimp

SaveFailed(p) ==
    /\ AtCampaign(p)
    /\ passes[p].pc = "save"
    /\ campaigns' = campaigns

\* The ids the find of a starting pass would return from the store.
Pollable(store) ==
    {id \in DOMAIN store : store[id].recurring.enabled /\ store[id].status \in {"draft", "sent"}}

\* C2: when the dispatcher fails for a due definition, at the create step or
\* at the schedule step, the persisted lastSent and nextScheduled keep the
\* values they had before the pass, and the definition is still due and in
\* the set the next poll pass fires.
C2_DispatchFailureKeepsSchedule ==
    [][\A p \in PassIds :
          (CreateFailed(p) \/ ScheduleFailed(p)) =>
              LET id     == Current(p).id
                  before == Current(p).doc.recurring
              IN  /\ campaigns'[id].recurring.lastSent = before.lastSent
                  /\ campaigns'[id].recurring.nextScheduled = before.nextScheduled
                  /\ campaigns'[id].recurring = campaigns[id].recurring
                  /\ DueAt(campaigns'[id], clock')
                  /\ id \in Pollable(campaigns')]_vars

\* A definition that was left unadvanced by a failed dispatch (its instance
\* of that attempt is stored) is fired again in a later pass.
C2_Witness ==
    \E p \in PassIds :
        /\ passes[p].pc = "create"
        /\ passes[p].results = <<>>
        /\ campaigns[Current(p).id].recurring.lastSent = None
        /\ \E other \in DOMAIN campaigns :
              /\ other # passes[p].newCampaign[1].id
              /\ campaigns[other].name.base = Current(p).doc.name.base
              /\ campaigns[other].name.dates # <<>>

\* C3: a failure while processing one definition (instance creation,
\* dispatcher create, dispatcher schedule or persistence) never aborts the
\* batch: the failure is recorded, the loop goes on with the next
\* definition, the definitions after the failed one are what they were, and
\* the pass returns only after the loop went through the whole batch.
C3_FailureIsolated ==
    [][\A p \in PassIds :
          /\ (InstanceFailed(p) \/ CreateFailed(p) \/ ScheduleFailed(p) \/ SaveFailed(p)) =>
                /\ passes'[p].pc = "loop"
                /\ passes'[p].i = passes[p].i + 1
                /\ Len(passes'[p].results) = Len(passes[p].results) + 1
                /\ SubSeq(passes'[p].results, 1, Len(passes[p].results)) = passes[p].results
                /\ ~Last(passes'[p].results).success
                /\ Last(passes'[p].results).campaign = Current(p).doc.name
                /\ \A k \in (passes[p].i + 1) .. Len(passes[p].snapshot) :
                      /\ passes'[p].snapshot[k] = passes[p].snapshot[k]
                      /\ campaigns'[passes[p].snapshot[k].id]
                             = campaigns[passes[p].snapshot[k].id]
          /\ (passes[p].pc # "done" /\ passes'[p].pc = "done"
                  /\ passes[p].pc # "idle") =>
                /\ passes[p].i > Len(passes[p].snapshot)
                /\ passes'[p].success = Some(TRUE)]_vars

\* A finished pass over two due definitions: the first failed, the second
\* was advanced.
C3_Witness ==
    \E p \in PassIds :
        /\ passes[p].pc = "done"
        /\ Len(passes[p].results) = 2
        /\ ~passes[p].results[1].success
        /\ passes[p].results[2].success
        /\ campaigns[passes[p].snapshot[2].id].recurring.nextScheduled
               = Some(passes[p].results[2].nextScheduled)

\* C4: when both dispatcher steps succeeded and the definition is written,
\* it is persisted with lastSent equal to the now of that evaluation and
\* nextScheduled equal to the computed next date, the date the derived
\* instance was scheduled for.
C4_AdvanceOnSuccess ==
    [][\A p \in PassIds :
          (AtCampaign(p) /\ passes[p].pc = "save" /\ ~SaveFailed(p)) =>
              LET id      == Current(p).id
                  new     == passes[p].newCampaign[1]
                  written == campaigns'[id].recurring
              IN  /\ written.lastSent = passes[p].now
                  /\ written.nextScheduled = passes[p].nextDate
                  /\ written.nextScheduled =
                         Some(ComputeNextOccurrence(campaigns[id].recurring, passes[p].now[1]))
                  /\ written.nextScheduled = campaigns[new.id].scheduledFor
                  /\ written.nextScheduled = mailchimp[passes[p].created[1]].scheduleTime
                  /\ campaigns[new.id].mailchimpCampaignId = passes[p].created
                  /\ Last(passes'[p].results).success]_vars

\* A definition fired at Clock0 and advanced: lastSent is Clock0 and
\* nextScheduled is the date of its scheduled instance.
C4_Witness ==
    \E id \in DOMAIN campaigns, inst \in DOMAIN campaigns, c \in DOMAIN mailchimp :
        /\ campaigns[id].recurring.enabled
        /\ campaigns[id].recurring.lastSent = Some(Clock0)
        /\ campaigns[id].recurring.nextScheduled = campaigns[inst].scheduledFor
        /\ campaigns[inst].mailchimpCampaignId = Some(c)
        /\ mailchimp[c].scheduleTime = campaigns[id].recurring.nextScheduled
        /\ Before(Clock0, campaigns[id].recurring.nextScheduled[1])

\* The ids of the campaigns pass p holds in its batch.
SnapshotIds(pass) == {pass.snapshot[k].id : k \in DOMAIN pass.snapshot}

\* The find of pass p succeeded in this step.
Started(p) == passes[p].pc \in {"idle", "done"} /\ passes'[p].pc = "loop"

\* Pass p is at a due campaign and takes its step.
AtDue(p) == AtCampaign(p) /\ passes[p].pc = "loop" /\ DueAt(Current(p).doc, clock)

\* An instance of the current campaign is stored and handed to the dispatcher.
Fired(p) ==
    /\ passes'[p].pc = "create"
    /\ campaigns' = Append(campaigns, passes'[p].newCampaign[1].doc)
    /\ passes'[p].newCampaign[1].id = Len(campaigns')
    /\ passes'[p].newCampaign[1].doc.name.base = Current(p).doc.name.base
    /\ passes'[p].i = passes[p].i

C11_NextAfterLastSent ==
    \A id \in DOMAIN campaigns :
        LET r == campaigns[id].recurring
        IN  r.lastSent # None =>
                /\ r.nextScheduled # None
                /\ Before(r.lastSent[1], r.nextScheduled[1])

\* A definition advanced in two passes a day apart: the first pass scheduled
\* an instance for the second day, the second pass left lastSent at that
\* day's reading of the clock and nextScheduled a day later.
C11_Witness ==
    \E id \in DOMAIN campaigns :
        /\ campaigns[id].recurring.lastSent = Some([Clock0 EXCEPT !.day = @ + 1])
        /\ campaigns[id].recurring.nextScheduled # None
        /\ campaigns[id].recurring.nextScheduled[1].day = Clock0.day + 2
        /\ \E inst \in DOMAIN campaigns :
              /\ campaigns[inst].name.base = campaigns[id].name.base
              /\ campaigns[inst].scheduledFor = campaigns[id].recurring.lastSent

\* The step of pass p pushed exactly one outcome, after the ones it had.
PushedOne(p) ==
    /\ Len(passes'[p].results) = Len(passes[p].results) + 1
    /\ SubSeq(passes'[p].results, 1, Len(passes[p].results)) = passes[p].results

\* C12: a poll pass returns exactly one outcome per definition fired in the
\* pass, in processing order. The outcome is pushed when the pass leaves the
\* definition: a success outcome carries the definition's name and the
\* computed nextScheduled, a failure outcome the name and an error message. A
\* definition that is not due is left without an outcome, the steps in the
\* middle of a dispatch push nothing, and the pass returns the outcomes it
\* pushed.
C12_OneOutcomePerFired ==
    [][\A p \in PassIds :
          /\ AtCampaign(p) =>
                LET left == passes'[p].i = passes[p].i + 1
                    o    == Last(passes'[p].results)
                IN  IF passes[p].pc = "loop" /\ ~DueAt(Current(p).doc, clock)
                    THEN left /\ passes'[p].results = passes[p].results
                    ELSE IF left
                    THEN /\ PushedOne(p)
                         /\ o.campaign = Current(p).doc.name
                         /\ IF o.success
                            THEN /\ DOMAIN o = {"campaign", "nextScheduled", "success"}
                                 /\ o.nextScheduled =
                                        ComputeNextOccurrence(Current(p).doc.recurring,
                                                              passes[p].now[1])
                            ELSE /\ DOMAIN o = {"campaign", "success", "error"}
                                 /\ o.error # ""
                    ELSE /\ passes'[p].i = passes[p].i
                         /\ passes'[p].results = passes[p].results
          /\ (passes[p].pc = "loop" /\ passes'[p].pc = "done") =>
                /\ passes'[p].results = passes[p].results
                /\ Len(passes'[p].results) <= Len(passes'[p].snapshot)]_vars

\* A finished pass over a due definition and one that is not due, the clock
\* still at Clock0: one success outcome, for the first.
C12_Witness ==
    \E p \in PassIds :
        /\ passes[p].pc = "done"
        /\ clock = Clock0
        /\ Len(passes[p].snapshot) = 2
        /\ ~DueAt(passes[p].snapshot[2].doc, clock)
        /\ Len(passes[p].results) = 1
        /\ passes[p].results[1].success
        /\ passes[p].results[1].campaign = passes[p].snapshot[1].doc.name
        /\ Some(passes[p].results[1].nextScheduled)
               = campaigns[passes[p].snapshot[1].id].recurring.nextScheduled

\* The schedule step of pass p reached the platform.
Scheduled(p) == AtCampaign(p) /\ passes[p].pc = "schedule" /\ mailchimp' # mailchimp

\* The create step of pass p came back with a platform campaign.
Created(p) == AtCampaign(p) /\ passes[p].pc = "create" /\ passes'[p].pc = "schedule"

\* C13: the instance built for a fired definition copies the definition's
\* description, type, template and segment, has status draft at creation and
\* scheduledFor equal to the computed next date; the create step is given
\* that instance, the schedule step is given the id the create step returned
\* and that same date.
C13_InstanceAndDispatchArguments ==
    [][\A p \in PassIds :
          /\ Fired(p) =>
                LET def  == Current(p).doc
                    inst == Last(campaigns')
                IN  /\ inst.description = def.description
                    /\ inst.type = def.type
                    /\ inst.template = def.template
                    /\ inst.segment = def.segment
                    /\ inst.status = "draft"
                    /\ inst.scheduledFor = Some(ComputeNextOccurrence(def.recurring, clock))
                    /\ inst.name = [def.name EXCEPT !.dates = Append(@, LocaleDate(
                                        ComputeNextOccurrence(def.recurring, clock)))]
          /\ Created(p) =>
                LET new      == passes[p].newCampaign[1]
                    returned == passes'[p].created[1]
                IN  /\ returned \in DOMAIN mailchimp' \ DOMAIN mailchimp
                    /\ mailchimp'[returned].title = new.doc.name
                    /\ campaigns'[new.id].mailchimpCampaignId = Some(returned)
          /\ Scheduled(p) =>
                LET new      == passes[p].newCampaign[1]
                    returned == passes[p].created[1]
                IN  /\ mailchimp' = [mailchimp EXCEPT ![returned].scheduleTime = passes[p].nextDate]
                    /\ mailchimp[returned].title = new.doc.name
                    /\ campaigns[new.id].scheduledFor = passes[p].nextDate
                    /\ passes[p].nextDate =
                           Some(ComputeNextOccurrence(Current(p).doc.recurring,
                                                      passes[p].now[1]))]_vars

\* The second instance of a pass is scheduled on the platform: the second
\* platform campaign has the next date of the second definition and the name
\* of its instance.
C13_Witness ==
    \E p \in PassIds :
        /\ passes[p].pc = "save"
        /\ passes[p].i = 2
        /\ passes[p].created = Some(2)
        /\ mailchimp[1].scheduleTime # None
        /\ mailchimp[2].scheduleTime = passes[p].nextDate
        /\ mailchimp[2].title = passes[p].newCampaign[1].doc.name
        /\ passes[p].newCampaign[1].doc.description = Current(p).doc.description
        /\ campaigns[passes[p].newCampaign[1].id].scheduledFor = passes[p].nextDate

\* C14: a dispatch that fails at the create sub-step and one that fails at
\* the schedule sub-step leave the same persisted state, without any record
\* of a partially completed dispatch: no instance document is left behind, no
\* platform campaign id is stored and no instance has status scheduled.
C14_NoPartialDispatchState ==
    [][\A p \in PassIds :
          (CreateFailed(p) \/ ScheduleFailed(p)) =>
              LET new == passes[p].newCampaign[1]
              IN  \A id \in DOMAIN campaigns' :
                      /\ campaigns'[id].name # new.doc.name
                      /\ id # new.id
                      /\ (id > NumDefs) =>
                            /\ campaigns'[id].mailchimpCampaignId = None
                            /\ campaigns'[id].status # "scheduled"]_vars

\* C15: when save() of the advanced definition fails after both dispatcher
\* steps succeeded, the pass records a failure outcome for the definition and
\* no success outcome, the persisted lastSent and nextScheduled are not
\* advanced, and the pass goes on with the next definition of the batch.
C15_SaveFailureSurfaced ==
    [][\A p \in PassIds :
          SaveFailed(p) =>
              LET id == Current(p).id
              IN  /\ PushedOne(p)
                  /\ ~Last(passes'[p].results).success
                  /\ Last(passes'[p].results).campaign = Current(p).doc.name
                  /\ campaigns'[id].recurring = Current(p).doc.recurring
                  /\ campaigns'[id].recurring.nextScheduled # passes[p].nextDate
                  /\ passes'[p].pc = "loop"
                  /\ passes'[p].i = passes[p].i + 1
                  /\ \A k \in (passes[p].i + 1) .. Len(passes[p].snapshot) :
                        passes'[p].snapshot[k] = passes[p].snapshot[k]]_vars

\* A finished pass whose first definition was dispatched and could not be
\* saved, and whose second definition was advanced: the first has a failure
\* outcome and no lastSent, its instance is scheduled on the platform.
C15_Witness ==
    \E p \in PassIds :
        /\ passes[p].pc = "done"
        /\ Len(passes[p].results) = 2
        /\ ~passes[p].results[1].success
        /\ passes[p].results[1].error = "Campaign could not be saved"
        /\ passes[p].results[2].success
        /\ campaigns[passes[p].snapshot[1].id].recurring.lastSent = None
        /\ mailchimp[1].scheduleTime # None
        /\ mailchimp[1].title.base = passes[p].snapshot[1].doc.name.base

\* The stored documents that are recurring definitions: the instances the
\* scheduler derives are stored after them.
Definitions == 1 .. NumDefs

\* C16: a definition whose recurrence is disabled, or whose nextScheduled is
\* later than now, is left untouched by a poll pass: the step the pass takes
\* at it creates no instance, calls no dispatcher and pushes no outcome, and
\* no step changes any of its fields; a disabled definition is in the batch
\* of no pass.
C16_NotDueUntouched ==
    [][\A id \in Definitions :
          (~campaigns[id].recurring.enabled \/ ~DueAt(campaigns[id], clock)) =>
              /\ campaigns'[id] = campaigns[id]
              /\ \A p \in PassIds :
                    /\ (AtCampaign(p) /\ Current(p).id = id) =>
                          /\ campaigns' = campaigns
                          /\ mailchimp' = mailchimp
                          /\ passes'[p].results = passes[p].results
                          /\ passes'[p].pc = "loop"
                          /\ passes'[p].i = passes[p].i + 1
                    /\ ~campaigns[id].recurring.enabled =>
                          id \notin SnapshotIds(passes'[p])]_vars

\* Two passes a day apart over a due definition and a disabled one: the
\* first was advanced twice, the disabled one is as it was stored, without
\* instance and without outcome.
C16_Witness ==
    \E p \in PassIds, id \in Definitions :
        /\ passes[p].pc = "done"
        /\ clock.day = Clock0.day + 1
        /\ ~campaigns[id].recurring.enabled
        /\ campaigns[id].recurring.nextScheduled = None
        /\ Len(passes[p].results) = 1
        /\ passes[p].results[1].campaign # campaigns[id].name
        /\ Len(campaigns) = NumDefs + 2
        /\ \A inst \in DOMAIN campaigns :
              inst \notin Definitions => campaigns[inst].name.base # campaigns[id].name.base

\* C17: a recurring definition (a stored campaign with recurrence enabled)
\* is never itself handed to the dispatcher's create or schedule operation:
\* no platform campaign is created under its name, it carries no platform
\* campaign id and it is not scheduled on the platform.
C17_DefinitionNeverDispatched ==
    \A id \in DOMAIN campaigns :
        campaigns[id].recurring.enabled =>
            /\ campaigns[id].mailchimpCampaignId = None
            /\ \A c \in DOMAIN mailchimp : mailchimp[c].title # campaigns[id].name

\* C18: the next date is a function of the rule's frequency, dayOfWeek,
\* dayOfMonth and timeOfDay and of the reference instant alone: whatever the
\* pass did before, and whatever lastSent and nextScheduled earlier
\* evaluations left on the definition, firing a definition yields the four
\* steps applied to the clock reading, and the evaluation modifies neither
\* the in-memory rule nor the stored one.
C18_ComputationIsPure ==
    [][\A p \in PassIds :
          Fired(p) =>
              LET r == [Current(p).doc.recurring EXCEPT
                           !.lastSent = None, !.nextScheduled = None]
                  expected ==
                      TimeOfDayStep(r, DayOfMonthStep(r, DayOfWeekStep(r,
                          AdvanceInterval(r, clock))))
              IN  /\ passes'[p].nextDate = Some(expected)
                  /\ passes'[p].now = Some(clock)
                  /\ passes'[p].snapshot = passes[p].snapshot
                  /\ campaigns'[Current(p).id] = campaigns[Current(p).id]]_vars

\* A definition an earlier evaluation advanced is fired again a day later:
\* its next date is computed from the new reading of the clock.
C18_Witness ==
    \E p \in PassIds :
        /\ passes[p].pc = "create"
        /\ Current(p).doc.recurring.lastSent = Some(Clock0)
        /\ Current(p).doc.recurring.frequency = "daily"
        /\ passes[p].now = Some([Clock0 EXCEPT !.day = @ + 1])
        /\ passes[p].nextDate = Some([Clock0 EXCEPT !.day = @ + 2])

----------------------------------------------------------------------------
(* The day-of-week search on its own, one action per iteration of the      *)
(* while loop, over every value the schema lets the dayOfWeek field hold.  *)

MaxSearchDays == 8

\* JavaScript's null in an optional field: the Number path stores it as it
\* is, and min/max are not checked on it.
Null == <<"null", "null">>

SearchOptions ==
    [enabled : {Some(TRUE)}, frequency : {Some(f) : f \in RecognizedFrequencies},
     dayOfWeek : DayOfWeekValues \cup {Null}, dayOfMonth : {None},
     timeOfDay : {None}, lastSent : {None}, nextScheduled : {None}]

\* The seven days from Monday 2024-01-01, at 10:30:15.250.
SearchInstants ==
    {[day |-> MakeDay(2024, 0, d), ms |-> ((10 * 60 + 30) * 60 + 15) * 1000 + 250] :
        d \in 1 .. 7}

InitSearch ==
    /\ options \in SearchOptions
    /\ rule = RecurringSchema(options)
    /\ now \in SearchInstants
    /\ nextDate = None
    /\ clock = Clock0
    /\ campaigns = <<>>
    /\ mailchimp = <<>>
    /\ passes = [p \in PassIds |-> IdlePass]
    /\ calls = NoCalls
    /\ generation = NoGeneration

\* dayOfWeek !== undefined && frequency !== 'daily'
SearchEntered(r) == r.dayOfWeek # None /\ r.frequency # "daily"

\* nextDate.getDay() !== dayOfWeek: a number is never strictly equal to null.
SearchContinues(r, d) ==
    IF r.dayOfWeek = Null THEN TRUE ELSE getDay(d) # r.dayOfWeek[1]

\* const nextDate = new Date() and the switch on the frequency.
AdvanceDate ==
    /\ nextDate = None
    /\ nextDate' = Some(AdvanceInterval(rule, now))
    /\ UNCHANGED <<generation, calls, options, rule, now, serviceVars>>

\* The iterations the search has made so far.
SearchIterations == nextDate[1].day - AdvanceInterval(rule, now).day

\* One iteration of the while loop, followed for MaxSearchDays iterations.
SearchIterate ==
    /\ nextDate # None
    /\ SearchEntered(rule)
    /\ SearchContinues(rule, nextDate[1])
    /\ SearchIterations < MaxSearchDays
    /\ nextDate' = Some(setDate(nextDate[1], getDate(nextDate[1]) + 1))
    /\ UNCHANGED <<generation, calls, options, rule, now, serviceVars>>

NextSearch == AdvanceDate \/ SearchIterate

SpecSearch == InitSearch /\ [][NextSearch]_vars

\* C19: whenever a rule's dayOfWeek is set and its frequency is not daily,
\* the day-by-day search ends after at most 7 iterations, for every value the
\* stored dayOfWeek field can hold.
C19_SearchEndsWithinSevenDays ==
    (nextDate # None /\ SearchEntered(rule)) =>
        /\ SearchIterations <= 7
        /\ SearchIterations = 7 => ~SearchContinues(rule, nextDate[1])

----------------------------------------------------------------------------
(* Further properties of the next-date computation (SpecCalc).             *)

\* The days the interval of a day-counted frequency adds.
IntervalDays(f) == CASE f = "daily" -> 1 [] f = "weekly" -> 7 [] f = "biweekly" -> 14

\* C20: for daily, weekly and biweekly rules with dayOfWeek unset, the
\* result's calendar date is now's date plus 1, 7 and 14 days, across month
\* and year ends; for these frequencies dayOfMonth does not change the
\* result, and for daily dayOfWeek does not change it either.
C20_DayCountedIntervals ==
    (Computed /\ rule.frequency \in {"daily", "weekly", "biweekly"}) =>
        /\ (rule.dayOfWeek = None \/ rule.frequency = "daily") =>
              nextDate[1].day = now.day + IntervalDays(rule.frequency)
        /\ nextDate[1] = ComputeNextOccurrence([rule EXCEPT !.dayOfMonth = None], now)
        /\ rule.frequency = "daily" =>
              nextDate[1] = ComputeNextOccurrence(
                                [rule EXCEPT !.dayOfWeek = None, !.dayOfMonth = None], now)

\* A daily rule with dayOfWeek 3 and dayOfMonth 15 evaluated on 2023-12-31:
\* the result is Monday 2024-01-01.
C20_Witness ==
    /\ Computed
    /\ rule.frequency = "daily"
    /\ rule.dayOfWeek = Some(3)
    /\ rule.dayOfMonth = Some(15)
    /\ now.day = MakeDay(2023, 11, 31)
    /\ nextDate[1].day = MakeDay(2024, 0, 1)
    /\ getDay(nextDate[1]) = 1

----------------------------------------------------------------------------
(* The service under repeated polling: every step of a pass is eventually  *)
(* taken, and the store, the dispatcher and save() succeed again and again *)
(* when they are called again and again. The strong fairness of the store  *)
(* is written out, CanStore being the enabling condition of StoreSucceeds. *)

FindSucceeds(p) == StartPass(p) /\ passes'[p].pc = "loop"

\* Pass p is at a due campaign and the store has room for its instance.
CanStore(p) ==
    /\ passes[p].pc = "loop"
    /\ passes[p].i <= Len(passes[p].snapshot)
    /\ IsDue(Current(p).doc, clock)
    /\ Len(campaigns) < MaxDocs

\* The step of FireDue in which the store accepts the new instance.
StoreSucceeds(p) == passes[p].pc = "loop" /\ passes'[p].pc = "create"

CreateSucceeds(p) == DispatchCreate(p) /\ passes'[p].pc = "schedule"

ScheduleSucceeds(p) == DispatchSchedule(p) /\ passes'[p].pc = "save"

SaveSucceeds(p) == SaveDefinition(p) /\ campaigns' # campaigns

Polling ==
    /\ WF_vars(Finish(PollPass))
    /\ WF_vars(SkipNotDue(PollPass))
    /\ SF_vars(FindSucceeds(PollPass))
    /\ ([]<>CanStore(PollPass)) => []<><<StoreSucceeds(PollPass)>>_vars
    /\ SF_vars(CreateSucceeds(PollPass))
    /\ SF_vars(ScheduleSucceeds(PollPass))
    /\ SF_vars(SaveSucceeds(PollPass))

\* Stored at the start: enabled definitions with status draft or sent, due
\* or not.
LiveProfiles ==
    {profile \in DefinitionProfiles :
        profile.recurring.enabled = Some(TRUE) /\ profile.status \in {"draft", "sent"}}

InitLive == InitFrom(LiveProfiles)

SpecLive == InitLive /\ [][NextService]_vars /\ Polling

\* The stored campaign id is an enabled recurring definition and is due.
EnabledAndDue(id) ==
    IF id \in DOMAIN campaigns
    THEN campaigns[id].recurring.enabled /\ DueAt(campaigns[id], clock)
    ELSE FALSE

\* The stored campaign id has a nextScheduled later than the clock.
WaitsForNext(id) ==
    IF id \in DOMAIN campaigns THEN ~DueAt(campaigns[id], clock) ELSE FALSE

\* C21: while a definition stays enabled its recurrence has no terminal
\* state: under repeated poll passes and a dispatcher that eventually
\* succeeds, an enabled definition that is due is eventually advanced, its
\* nextScheduled set later than the clock (or the store has no room left for
\* an instance).
C21_DueEventuallyAdvanced ==
    \A id \in 1 .. MaxDocs :
        [](EnabledAndDue(id) => <>(WaitsForNext(id) \/ Len(campaigns) = MaxDocs))

----------------------------------------------------------------------------
(* Further properties of the poll pass (Spec).                             *)

\* The stage after each stage of the processing of one definition.
NextStage(pc) ==
    CASE pc = "loop" -> "create" [] pc = "create" -> "schedule"
      [] pc = "schedule" -> "save" [] OTHER -> "loop"

\* C22: within one poll pass the due definitions are processed one after
\* another: a step of the pass either moves the current definition to its
\* next stage (instance stored, created on the platform, scheduled, saved)
\* or leaves it for good and moves to the next definition of the batch; the
\* dispatcher is called only for the current definition's instance; the
\* batch holds each definition once, so the dispatcher is invoked at most
\* once per definition and stage in the pass.
C22_OneDefinitionAtATime ==
    [][\A p \in PassIds :
          /\ AtCampaign(p) =>
                /\ \/ /\ passes'[p].i = passes[p].i
                      /\ passes'[p].pc = NextStage(passes[p].pc)
                      /\ passes'[p].pc # "loop"
                      /\ passes'[p].results = passes[p].results
                   \/ /\ passes'[p].i = passes[p].i + 1
                      /\ passes'[p].pc = "loop"
                /\ \A k \in DOMAIN passes[p].snapshot :
                      k # passes[p].i => passes'[p].snapshot[k] = passes[p].snapshot[k]
                /\ passes'[p].snapshot[passes[p].i].id = Current(p).id
                /\ mailchimp' # mailchimp =>
                      /\ passes[p].pc \in {"create", "schedule"}
                      /\ Len(mailchimp') = Len(mailchimp) + 1 =>
                            Last(mailchimp').title = passes[p].newCampaign[1].doc.name
                      /\ Len(mailchimp') = Len(mailchimp) =>
                            mailchimp'[passes[p].created[1]].title
                                = passes[p].newCampaign[1].doc.name
          /\ \A j, k \in DOMAIN passes'[p].snapshot :
                j # k => passes'[p].snapshot[j].id # passes'[p].snapshot[k].id
          /\ passes[p].pc \in {"create", "schedule", "save"} =>
                /\ passes[p].newCampaign # None
                /\ passes[p].newCampaign[1].doc.name.base = Current(p).doc.name.base]_vars

\* The second definition of a batch is at the schedule stage after the first
\* was taken through all its stages: one platform campaign each.
C22_Witness ==
    \E p \in PassIds :
        /\ passes[p].pc = "schedule"
        /\ passes[p].i = 2
        /\ Len(passes[p].results) = 1
        /\ passes[p].results[1].success
        /\ Len(mailchimp) = 2
        /\ mailchimp[1].title.base = passes[p].snapshot[1].doc.name.base
        /\ mailchimp[2].title.base = passes[p].snapshot[2].doc.name.base
        /\ mailchimp[1].scheduleTime # None
        /\ mailchimp[2].scheduleTime = None

----------------------------------------------------------------------------
(* Two invocations of processRecurringCampaigns whose steps interleave:    *)
(* nothing in the service keeps a second invocation from starting while    *)
(* the first is at an await. save() is reliable here.                      *)

OverlappingPass == 2

\* The second invocation is followed once.
StartOverlapping(p) ==
    /\ p = OverlappingPass => passes[p].pc = "idle"
    /\ StartPass(p)

NextOverlap ==
    \/ \E p \in PassIds :
          \/ StartOverlapping(p)
          \/ Finish(p)
          \/ SkipNotDue(p)
          \/ FireDue(p)
          \/ DispatchCreate(p)
          \/ DispatchSchedule(p)
          \/ SaveSucceeds(p)
    \/ Tick

\* Stored at the start: due definitions with status draft.
InitOverlap == InitFrom({profile \in DueProfiles : profile.status = "draft"})

SpecOverlap == InitOverlap /\ [][NextOverlap]_vars

\* The platform campaigns scheduled for an instance of definition id that no
\* advance of the definition covers yet: their schedule time is later than
\* the stored nextScheduled.
PendingDispatches(id) ==
    {c \in DOMAIN mailchimp :
        /\ mailchimp[c].title.base = campaigns[id].name.base
        /\ mailchimp[c].scheduleTime # None
        /\ IF campaigns[id].recurring.nextScheduled = None THEN TRUE
           ELSE Before(campaigns[id].recurring.nextScheduled[1],
                       mailchimp[c].scheduleTime[1])}

\* C23: the scheduler has no locking of its own, so two overlapping passes
\* can both read a definition as due and each create and dispatch an
\* instance for it. As long as a second pass was never started while
\* another was active, and save() does not fail, a definition is dispatched
\* successfully at most once between two consecutive advances of its
\* nextScheduled.
C23_OneDispatchPerAdvance ==
    passes[OverlappingPass].pc = "idle" =>
        \A id \in Definitions : Cardinality(PendingDispatches(id)) <= 1

\* Both passes hold the same definition as due and each has created and
\* scheduled its own instance of it.
C23_Witness ==
    /\ \A p \in PassIds : passes[p].pc = "save"
    /\ Current(PollPass).id = Current(OverlappingPass).id
    /\ passes[PollPass].newCampaign[1].id # passes[OverlappingPass].newCampaign[1].id
    /\ passes[PollPass].created # passes[OverlappingPass].created
    /\ \A p \in PassIds : mailchimp[passes[p].created[1]].scheduleTime # None
    /\ Cardinality(PendingDispatches(Current(PollPass).id)) = 2

\* The document doc with the two schedule fields of the document from.
WithScheduleOf(doc, from) ==
    [doc EXCEPT !.recurring.lastSent = from.recurring.lastSent,
                !.recurring.nextScheduled = from.recurring.nextScheduled]

\* C24: a poll pass changes only lastSent and nextScheduled of a recurring
\* definition: its enabled flag, frequency, dayOfWeek, dayOfMonth,
\* timeOfDay, name, description, type, template, segment and dispatch status
\* are after every step what they were before it, on success and on failure,
\* and no step removes a definition from the store.
C24_OnlyScheduleFieldsChange ==
    [][/\ \A id \in Definitions :
             /\ id \in DOMAIN campaigns'
             /\ campaigns'[id] = WithScheduleOf(campaigns[id], campaigns'[id])
       /\ Len(campaigns') >= Len(campaigns)
       /\ SubSeq(campaigns', 1, NumDefs) =
              [id \in Definitions |-> WithScheduleOf(campaigns[id], campaigns'[id])]]_vars

\* After a pass with a failure and a success the two definitions are the
\* documents stored at the start, but for the schedule fields of the one
\* that was advanced.
C24_Witness ==
    \E p \in PassIds :
        /\ passes[p].pc = "done"
        /\ Len(passes[p].results) = 2
        /\ ~passes[p].results[1].success
        /\ passes[p].results[2].success
        /\ \A id \in Definitions :
              \E profile \in DefinitionProfiles :
                  campaigns[id] = WithScheduleOf(Definition(id, profile), campaigns[id])
        /\ campaigns[passes[p].snapshot[2].id].recurring.lastSent # None
        /\ campaigns[passes[p].snapshot[1].id].recurring.lastSent = None

\* The next date of the stored rule the same options give once one of
\* their fields is left unset.
NextWithout(field) ==
    ComputeNextOccurrence(RecurringSchema([options EXCEPT ![field] = None]), now)

BothDaysSet == options.dayOfWeek # None /\ options.dayOfMonth # None

\* C25: for a monthly or quarterly rule with both dayOfWeek and dayOfMonth
\* set, dayOfWeek is ignored: for every now the next date is the next date
\* of the same rule with dayOfWeek unset; for a weekly rule with both set
\* only dayOfWeek is used: the next date is that of the same rule with
\* dayOfMonth unset.
C25_OneDayFieldUsed ==
    (Computed /\ BothDaysSet) =>
        /\ rule.frequency \in {"monthly", "quarterly"} =>
               nextDate[1] = NextWithout("dayOfWeek")
        /\ rule.frequency = "weekly" =>
               nextDate[1] = NextWithout("dayOfMonth")

\* The weekly half on its own.
C25_WeeklyUsesDayOfWeekOnly ==
    (Computed /\ BothDaysSet /\ rule.frequency = "weekly") =>
        nextDate[1] = NextWithout("dayOfMonth")

\* The documents the poll passes stored: every document after the
\* definitions the store began with.
Instances == {id \in DOMAIN campaigns : id \notin Definitions}

\* The number of instances pass p has stored: one for each campaign it is
\* dispatching and one for each outcome but the refused store.
CreatedInPass(p) ==
    Cardinality({k \in DOMAIN passes[p].results :
                    IF passes[p].results[k].success THEN TRUE
                    ELSE passes[p].results[k].error # "Campaign could not be stored"})
    + (IF passes[p].newCampaign # None THEN 1 ELSE 0)

\* Every instance has recurrence disabled and no pass has one in its batch.
InstancesAreOneShot ==
    /\ \A id \in Instances : ~campaigns[id].recurring.enabled
    /\ \A p \in PassIds : \A k \in DOMAIN passes[p].snapshot :
           passes[p].snapshot[k].id \in Definitions

\* C26 as stated: an instance is created with recurrence disabled, no pass
\* treats an instance as a recurring definition, and the number of instances
\* created in one pass never exceeds the number of recurring definitions
\* that were due at the start of that pass.
C26_InstancesWithinDueAtStart ==
    /\ InstancesAreOneShot
    /\ \A p \in PassIds : CreatedInPass(p) <= passes[p].dueAtStart

\* C26, amended: an instance is created with recurrence disabled, no pass
\* treats an instance as a recurring definition, and the number of instances
\* created in one pass never exceeds the number of recurring definitions of
\* its batch the loop has reached, each of them due when it was reached.
C26_InstancesWithinBatch ==
    /\ InstancesAreOneShot
    /\ \A p \in PassIds :
          /\ CreatedInPass(p) <= Len(passes[p].snapshot)
          /\ passes[p].pc # "idle" =>
                CreatedInPass(p) <=
                    Cardinality({k \in DOMAIN passes[p].snapshot : k <= passes[p].i})
          /\ passes[p].newCampaign # None =>
                IsDue(Current(p).doc, passes[p].now[1])

\* A pass that found no campaign due has stored an instance: the clock
\* moved on before the loop reached the campaign.
C26_Witness ==
    \E p \in PassIds :
        /\ passes[p].pc = "create"
        /\ passes[p].dueAtStart = 0
        /\ CreatedInPass(p) = 1
        /\ passes[p].newCampaign[1].id \in Instances
        /\ ~campaigns[passes[p].newCampaign[1].id].recurring.enabled
        /\ ~IsDue(Current(p).doc, Clock0)

\* The step of pass p is its call of createCampaign.
CallsCreateCampaign(p) == passes[p].pc = "create" /\ passes'[p] # passes[p]

\* C27: createCampaign updates the local campaign record only as its last
\* step: when it returns success the record carries the platform campaign id
\* that was returned and status scheduled, and the platform campaign has its
\* content; when it returns failure (template missing, platform create,
\* content upload or the update itself failing) the platform id and status
\* of the record, and every other stored document, are unchanged.
C27_LocalRecordUpdatedLast ==
    [][\A p \in PassIds :
          CallsCreateCampaign(p) =>
              LET id == passes[p].newCampaign[1].id
              IN  IF passes'[p].pc = "schedule"
                  THEN /\ passes'[p].created # None
                       /\ campaigns' = [campaigns EXCEPT
                              ![id].mailchimpCampaignId = passes'[p].created,
                              ![id].status = "scheduled"]
                       /\ passes'[p].created[1] = Len(mailchimp')
                       /\ mailchimp'[passes'[p].created[1]].content
                       /\ mailchimp'[passes'[p].created[1]].title = campaigns[id].name
                  ELSE /\ campaigns' = campaigns
                       /\ passes'[p].created = None
                       /\ ~Last(passes'[p].results).success]_vars

\* The first call failed at the content upload and left the record as it
\* was, though the platform holds the campaign; the second call succeeded
\* and the record of its campaign carries the returned id.
C27_Witness ==
    \E p \in PassIds :
        /\ passes[p].pc = "schedule"
        /\ passes[p].i = 2
        /\ Len(passes[p].results) = 1
        /\ ~passes[p].results[1].success
        /\ Len(mailchimp) = 2
        /\ ~mailchimp[1].content
        /\ campaigns[NumDefs + 1].mailchimpCampaignId = None
        /\ campaigns[NumDefs + 1].status = "draft"
        /\ campaigns[NumDefs + 2].mailchimpCampaignId = Some(2)
        /\ campaigns[NumDefs + 2].status = "scheduled"
        /\ passes[p].created = Some(2)

----------------------------------------------------------------------------
(* The try/catch structure of the service's operations (SpecOps). An       *)
(* operation is the sequence of its awaited calls: a call of the platform, *)
(* of the document store or a template lookup, each of which may fail, or  *)
(* a call of another operation, whose result the caller tests (checked) or *)
(* does not test. inTry says that the call is inside the operation's try.  *)

MaxBatch == 2

Operations ==
    {"syncSubscriber", "createCampaign", "scheduleCampaign", "sendCampaign",
     "getCampaignReport", "processNewSubscriber", "processNewProductAnnouncement",
     "processInquiryFollowup", "scheduleNewsletter", "schedulePromotionalCampaign",
     "processRecurringCampaigns", "updateCampaignStats"}

\* The try block of the loop body of processRecurringCampaigns, entered
\* once for each campaign of the batch.
RecurringBody == "processRecurringCampaigns.campaign"

Platform == [kind |-> "platform", op |-> "", checked |-> FALSE, inTry |-> TRUE]

Store == [kind |-> "store", op |-> "", checked |-> FALSE, inTry |-> TRUE]

Template == [kind |-> "template", op |-> "", checked |-> FALSE, inTry |-> TRUE]

\* Checked without the test of the result.
CheckedNotTested(op) == [kind |-> "call", op |-> op, checked |-> FALSE, inTry |-> TRUE]

\* const r = await this.op(...); if (!r.success) throw new Error(...)
Checked(op) == [kind |-> "call", op |-> op, checked |-> TRUE, inTry |-> TRUE]

\* await this.op(...) without a test of the result
Unchecked(op) == [kind |-> "call", op |-> op, checked |-> FALSE, inTry |-> TRUE]

\* What decides the branch an operation takes: found is the outcome of its
\* lookup (the subscriber has a mailchimpId, findOne returned a document,
\* the campaign is due), interests that the inquiry names product
\* interests, length the number of campaigns the find returned.
NoInput == [found |-> FALSE, interests |-> FALSE, length |-> 0]

OpInputs(op) ==
    CASE op \in {"syncSubscriber", "processNewSubscriber", RecurringBody} ->
            {[NoInput EXCEPT !.found = f] : f \in BOOLEAN}
      [] op = "processInquiryFollowup" ->
            {[NoInput EXCEPT !.found = f, !.interests = i] : f \in BOOLEAN, i \in BOOLEAN}
      [] op = "processRecurringCampaigns" ->
            {[NoInput EXCEPT !.length = n] : n \in 0 .. MaxBatch}
      [] OTHER -> {NoInput}

\* template lookup, EmailCampaign.create, createCampaign, scheduleCampaign
DispatchNewCampaign ==
    <<Template, Store, Checked("createCampaign"), Checked("scheduleCampaign")>>

\* The awaited calls of an operation, in order, for an input.
Steps(op, input) ==
    CASE op = "syncSubscriber" ->
            IF input.found THEN <<Platform>> ELSE <<Platform, Store>>
      [] op = "createCampaign" -> <<Template, Platform, Platform, Store>>
      [] op \in {"scheduleCampaign", "sendCampaign", "getCampaignReport"} -> <<Platform>>
      [] op = "processNewSubscriber" ->
            <<Store>> \o (IF input.found THEN <<>> ELSE <<Store>>)
                      \o <<Checked("syncSubscriber"), Store>>
      [] op = "processInquiryFollowup" ->
            <<Store>>
            \o (IF ~input.found THEN <<Checked("processNewSubscriber")>>
                ELSE IF input.interests THEN <<Store, Unchecked("syncSubscriber")>>
                ELSE <<>>)
            \o DispatchNewCampaign
      [] op \in {"processNewProductAnnouncement", "scheduleNewsletter",
                 "schedulePromotionalCampaign"} -> DispatchNewCampaign
      [] op = "processRecurringCampaigns" ->
            <<Store>> \o [k \in 1 .. input.length |-> Unchecked(RecurringBody)]
      [] op = RecurringBody ->
            IF input.found
            THEN <<Store, Checked("createCampaign"), Checked("scheduleCampaign"), Store>>
            ELSE <<>>
      [] OTHER -> <<Store, Checked("getCampaignReport"), Store>>

\* A call in progress. ignored counts the failures of nested calls the
\* operation went on after, after the calls it made since the first of them.
Frame(op, input) ==
    [op |-> op, steps |-> Steps(op, input), pc |-> 1, ignored |-> 0, after |-> 0]

\* The call starts its next step.
Begun(frame) == [frame EXCEPT !.after = IF frame.ignored > 0 THEN @ + 1 ELSE @]

\* What a call gives its caller: a returned result or, with thrown, an error.
Result(frame, success, thrown, cause) ==
    [op |-> frame.op, success |-> success, thrown |-> thrown, cause |-> cause,
     ignored |-> frame.ignored, after |-> frame.after]

RECURSIVE Raise(_, _, _), Deliver(_, _)

\* An error is raised at the current step of frame, the callers below it:
\* inside the try the catch returns success false, outside it the error
\* reaches the caller.
Raise(below, frame, cause) ==
    Deliver(below, Result(frame, FALSE, ~frame.steps[frame.pc].inTry, cause))

\* The result res reaches the caller waiting on top of below.
Deliver(below, res) ==
    IF below = <<>> THEN [stack |-> <<>>, result |-> Some(res)]
    ELSE LET caller == below[Len(below)]
             rest   == SubSeq(below, 1, Len(below) - 1)
             step   == caller.steps[caller.pc]
         IN  IF res.thrown THEN Raise(rest, caller, "nested")
             ELSE IF res.success \/ ~step.checked
             THEN [stack |-> Append(rest,
                        [caller EXCEPT !.pc = @ + 1,
                                       !.ignored = IF res.success THEN @ ELSE @ + 1]),
                   result |-> None]
             ELSE Raise(rest, caller, "nested")

Top == calls.stack[Len(calls.stack)]

Below == SubSeq(calls.stack, 1, Len(calls.stack) - 1)

AtStep == calls.stack # <<>> /\ Top.pc <= Len(Top.steps)

\* A caller of the service invokes one of its operations.
Invoke ==
    /\ calls.stack = <<>>
    /\ \E op \in Operations : \E input \in OpInputs(op) :
           calls' = [stack |-> <<Frame(op, input)>>, result |-> None]
    /\ UNCHANGED <<generation, calcVars, serviceVars>>

\* An awaited call of the platform, the store or the template lookup
\* returns or fails.
Await ==
    /\ AtStep
    /\ Top.steps[Top.pc].kind # "call"
    /\ \E ok \in BOOLEAN :
           calls' = IF ok
                    THEN [calls EXCEPT !.stack[Len(calls.stack)] =
                             [Begun(Top) EXCEPT !.pc = @ + 1]]
                    ELSE Raise(Below, Begun(Top), "collaborator")
    /\ UNCHANGED <<generation, calcVars, serviceVars>>

\* The operation calls another operation of the service.
CallNested ==
    /\ AtStep
    /\ Top.steps[Top.pc].kind = "call"
    /\ \E input \in OpInputs(Top.steps[Top.pc].op) :
           calls' = [calls EXCEPT !.stack =
                        Append(Append(Below, Begun(Top)),
                               Frame(Top.steps[Top.pc].op, input))]
    /\ UNCHANGED <<generation, calcVars, serviceVars>>

\* The last step is done: return {success: true, ...}.
Return ==
    /\ calls.stack # <<>>
    /\ Top.pc > Len(Top.steps)
    /\ calls' = Deliver(Below, Result(Top, TRUE, FALSE, "none"))
    /\ UNCHANGED <<generation, calcVars, serviceVars>>

InitOps ==
    /\ options = NoRecurring
    /\ rule = RecurringSchema(NoRecurring)
    /\ now = Clock0
    /\ nextDate = None
    /\ clock = Clock0
    /\ campaigns = <<>>
    /\ mailchimp = <<>>
    /\ passes = [p \in PassIds |-> IdlePass]
    /\ calls = NoCalls
    /\ generation = NoGeneration

NextOps == Invoke \/ Await \/ CallNested \/ Return

SpecOps == InitOps /\ [][NextOps]_vars

\* An operation has returned to the caller of the service.
Returned == calls.result # None

PerCampaignOperations == {"processRecurringCampaigns", "processInquiryFollowup"}

\* C29 as stated: every operation reports a failure of the platform, the
\* template lookup or the document store as a returned result with success
\* false, never as a thrown error, and a caller that gets success false
\* from a nested operation stops its remaining steps and returns success
\* false itself.
C29_FailuresStopTheCaller ==
    Returned =>
        /\ ~calls.result[1].thrown
        /\ calls.result[1].cause # "none" => ~calls.result[1].success
        /\ calls.result[1].ignored = 0
        /\ calls.result[1].after = 0

\* C29, amended: no operation throws; a failure of a collaborator it calls
\* itself, or of a nested operation whose result it tests, ends the
\* operation with success false; only processRecurringCampaigns (a failure
\* while one campaign of the batch is handled) and processInquiryFollowup
\* (syncSubscriber for a subscriber already stored) go on after a failure
\* and can then return success true.
C29_FailuresReturnedNotThrown ==
    Returned =>
        /\ ~calls.result[1].thrown
        /\ calls.result[1].success <=> calls.result[1].cause = "none"
        /\ (calls.result[1].ignored > 0 \/ calls.result[1].after > 0) =>
               calls.result[1].op \in PerCampaignOperations
        /\ \A k \in DOMAIN calls.stack :
               calls.stack[k].ignored > 0 =>
                   calls.stack[k].op \in PerCampaignOperations

\* processRecurringCampaigns returned success true though the handling of
\* its first campaign failed, after it had handled the second.
C29_Witness ==
    /\ Returned
    /\ calls.result[1].op = "processRecurringCampaigns"
    /\ calls.result[1].success
    /\ calls.result[1].ignored = 1
    /\ calls.result[1].after = 1

----------------------------------------------------------------------------
(* ContentGenerationService.generateProductContent (SpecContent): one      *)
(* action per awaited generator call. The content of a completion is a     *)
(* record: wellFormed says whether JSON.parse accepts it, value is the     *)
(* object it then yields.                                                  *)

KeywordLists == {<<"powder coating">>, <<"spray booth", "oven">>}

\* response.choices[0].message.content.trim() of a text completion
TextContents == {"completion A", "completion B"}

\* The contents a completion asked for a JSON object may have: the object
\* with the field asked for, an object without it, text that is no JSON.
JSONContents(field, value) ==
    {[wellFormed |-> TRUE, value |-> [f \in {field} |-> value]],
     [wellFormed |-> TRUE, value |-> <<>>],
     [wellFormed |-> FALSE, value |-> <<>>]}

\* JSON.parse(content): the parsed object, None for a SyntaxError.
JSONParse(content) == IF content.wellFormed THEN Some(content.value) ELSE None

\* parsedContent[field] || empty, and empty from the catch.
FieldOrDefault(content, field, empty) ==
    IF JSONParse(content) = None THEN empty
    ELSE IF field \in DOMAIN JSONParse(content)[1] THEN JSONParse(content)[1][field]
    ELSE empty

\* The contents a completion asked for SEO metadata may have.
SEOContents ==
    {[wellFormed |-> TRUE,
      value |-> [metaTitle |-> "SEO title", metaDescription |-> "SEO description",
                 schemaMarkup |-> "{}"]],
     [wellFormed |-> FALSE, value |-> <<>>]}

\* The identifiers bound in the body of generateSEOMetadata: its parameters.
SEOScope(g) ==
    [title |-> g.title[1], description |-> g.description[1],
     keywords |-> g.keywords[1], categoryName |-> "Coating"]

\* The object literal of the catch of generateSEOMetadata, evaluated with
\* the identifiers of scope: None when it reads an identifier that is not
\* bound (a ReferenceError).
SEOFallback(scope) ==
    IF {"title", "shortDescription"} \subseteq DOMAIN scope
    THEN Some([metaTitle |-> scope["title"],
               metaDescription |-> scope["shortDescription"], schemaMarkup |-> ""])
    ELSE None

\* What generateSEOMetadata resolves to for a completion content: None when
\* its promise is rejected.
SEOMetadata(g, content) ==
    IF JSONParse(content) # None THEN JSONParse(content) ELSE SEOFallback(SEOScope(g))

\* The outer catch: throw new Error("Failed to generate product content").
GenerationFailed(g) ==
    [g EXCEPT !.pc = "thrown", !.error = Some("Failed to generate product content")]

InitContent ==
    /\ options = NoRecurring
    /\ rule = RecurringSchema(NoRecurring)
    /\ now = Clock0
    /\ nextDate = None
    /\ clock = Clock0
    /\ campaigns = <<>>
    /\ mailchimp = <<>>
    /\ passes = [p \in PassIds |-> IdlePass]
    /\ calls = NoCalls
    /\ generation = NoGeneration

\* generateProductContent(keywords, categoryName) is called.
GenerateProductContent ==
    /\ generation.pc \in {"idle", "returned", "thrown"}
    /\ \E keywords \in KeywordLists :
           generation' = [NoGeneration EXCEPT !.pc = "title", !.keywords = Some(keywords)]
    /\ UNCHANGED <<calls, calcVars, serviceVars>>

AfterText(field) ==
    CASE field = "title" -> "description"
      [] field = "description" -> "shortDescription"
      [] OTHER -> "features"

\* generateProductTitle, generateProductDescription, generateShortDescription:
\* the completion's text, or the request failing.
GenerateText ==
    /\ generation.pc \in {"title", "description", "shortDescription"}
    /\ \/ \E text \in TextContents :
             generation' = [generation EXCEPT ![generation.pc] = Some(text),
                                              !.pc = AfterText(generation.pc)]
       \/ generation' = GenerationFailed(generation)
    /\ UNCHANGED <<calls, calcVars, serviceVars>>

AfterJSON(field) ==
    CASE field = "features" -> "specifications"
      [] field = "specifications" -> "applications"
      [] field = "applications" -> "faqs"
      [] OTHER -> "seo"

\* What the completion holds under the field, and the empty default.
JSONValue(field) ==
    CASE field = "features" -> <<[title |-> "Performance", items |-> <<"Fast">>]>>
      [] field = "specifications" -> [Power |-> "5 kW"]
      [] field = "applications" -> <<"Automotive">>
      [] OTHER -> <<[question |-> "Q", answer |-> "A"]>>

\* generateProductFeatures, generateProductSpecifications,
\* generateProductApplications, generateProductFAQs.
GenerateJSON ==
    /\ generation.pc \in {"features", "specifications", "applications", "faqs"}
    /\ \/ \E content \in JSONContents(generation.pc, JSONValue(generation.pc)) :
             generation' = [generation EXCEPT
                 ![generation.pc] = Some(FieldOrDefault(content, generation.pc, <<>>)),
                 !.pc = AfterJSON(generation.pc)]
       \/ generation' = GenerationFailed(generation)
    /\ UNCHANGED <<calls, calcVars, serviceVars>>

\* generateSEOMetadata is awaited.
GenerateSEOMetadata ==
    /\ generation.pc = "seo"
    /\ \/ \E content \in SEOContents :
             LET seoData == SEOMetadata(generation, content)
                 read    == [generation EXCEPT !.seoContent = Some(content)]
             IN  generation' = IF seoData = None THEN GenerationFailed(read)
                               ELSE [read EXCEPT !.seoData = seoData, !.pc = "return"]
       \/ generation' = GenerationFailed(generation)
    /\ UNCHANGED <<calls, calcVars, serviceVars>>

\* return { title, ..., metaTitle: seoData.metaTitle, ... }
ReturnProduct ==
    /\ generation.pc = "return"
    /\ generation' = [generation EXCEPT
           !.pc = "returned",
           !.returned = Some(
               [title |-> generation.title[1], description |-> generation.description[1],
                shortDescription |-> generation.shortDescription[1],
                features |-> generation.features[1],
                specifications |-> generation.specifications[1],
                applications |-> generation.applications[1], faqs |-> generation.faqs[1],
                metaTitle |-> generation.seoData[1].metaTitle,
                metaDescription |-> generation.seoData[1].metaDescription,
                schemaMarkup |-> generation.seoData[1].schemaMarkup])]
    /\ UNCHANGED <<calls, calcVars, serviceVars>>

NextContent ==
    \/ GenerateProductContent
    \/ GenerateText
    \/ GenerateJSON
    \/ GenerateSEOMetadata
    \/ ReturnProduct

SpecContent == InitContent /\ [][NextContent]_vars

\* The call is over and the SEO completion it read was not parseable JSON.
SEOUnparseable ==
    /\ generation.pc \in {"returned", "thrown"}
    /\ generation.seoContent # None
    /\ JSONParse(generation.seoContent[1]) = None

\* C30: when the LLM response for SEO metadata is not parseable JSON,
\* generateSEOMetadata returns the fallback object (metaTitle the product
\* title, a fallback metaDescription, schemaMarkup the empty string) instead
\* of failing, so generateProductContent returns a complete product, as it
\* does when another JSON response is unparseable and the empty default is
\* used.
C30_SEOFallbackKeepsProduct ==
    SEOUnparseable =>
        /\ generation.pc = "returned"
        /\ generation.returned # None
        /\ generation.returned[1].metaTitle = generation.title[1]
        /\ generation.returned[1].schemaMarkup = ""

\* The other half on its own: a call in which every completion arrived and
\* the SEO completion was parseable returns a product, with the empty
\* default for every field whose completion was not.
C30_EmptyDefaultsKeepProduct ==
    (generation.seoContent # None /\ ~SEOUnparseable /\ generation.pc # "return") =>
        /\ generation.pc = "returned"
        /\ \A field \in {"features", "specifications", "applications", "faqs"} :
               generation.returned[1][field] = generation[field][1]

====
